---- MODULE Spec2Model ----
(***************************************************************************)
(* rastertericoh: CUPS raster -> Ricoh GDI (PJL + JBIG1) filter.           *)
(* A state-machine model of src/rastertericoh.c: main's page loop,         *)
(* raster_to_pbm, jbig_data_cb / pbm_to_jbig, cups_to_pjl_paper and the    *)
(* PJL lines written to stdout.                                            *)
(***************************************************************************)
EXTENDS Integers, Sequences, FiniteSets, TLC

VARIABLES
    pc,          \* position in main / the function it is in
    argc,        \* main's argc
    user,        \* main: user = argc > 2 ? argv[2] : "unknown"
    fd,          \* main: input file descriptor
    ras,         \* main: TRUE once cupsRasterOpen returned a stream
    timestamp,   \* main: strftime'd job timestamp
    header,      \* main: cups_page_header2_t filled by cupsRasterReadHeader2
    page_count,  \* main: pages emitted so far
    pbm,         \* raster_to_pbm: the calloc'ed bitmap (main's pbm once returned)
    line,        \* raster_to_pbm: the malloc'ed line buffer
    y,           \* raster_to_pbm: loop index
    buf,         \* pbm_to_jbig: jbig_buffer_t {data, size, capacity}
    jbig,        \* main: pointer returned by pbm_to_jbig
    jbig_size,   \* main: *out_size of pbm_to_jbig
    out,         \* the byte stream written to stdout, as a sequence of items
    exit_status, \* value returned by main (-1 while running)
    hdr_reads,   \* number of headers cupsRasterReadHeader2 has returned
    nreads,      \* cupsRasterReadPixels calls issued since the last header
    src_lines,   \* what line[] read as for each row raster_to_pbm has converted
    short_at,    \* row at which this page's read came up short, or -1
    cb_calls,    \* the chunks the codec handed to jbig_data_cb in this pbm_to_jbig call
    realloc_failed, \* TRUE once a realloc in jbig_data_cb failed in this pbm_to_jbig call
    outcome,     \* which way the last loop iteration left the loop body
    heap         \* per buffer, the allocations made and the free() calls on it
                 \* since the last header

vars == << pc, argc, user, fd, ras, timestamp, header, page_count, pbm, line, y,
           buf, jbig, jbig_size, out, exit_status, hdr_reads, nreads,
           src_lines, short_at, cb_calls, realloc_failed, outcome, heap >>

----------------------------------------------------------------------------
(* Bounds of the model *)

MaxPages == 2        \* page headers the raster stream delivers at most
MaxChunks == 2       \* callbacks the codec issues per page at most

(* Program constants *)

InitialCapacity == 65536     \* buf.capacity = 65536
GrowSlack == 65536           \* new_cap = buf->size + len + 65536
Threshold == 128             \* line[x] < 128 / line[x] >= 128
CUPS_CSPACE_W == 0
CUPS_CSPACE_K == 3
CUPS_CSPACE_SW == 18
ArgcForFile == 7             \* argc >= 7

Min(a, b) == IF a < b THEN a ELSE b

RECURSIVE Pow2(_)
Pow2(n) == IF n = 0 THEN 1 ELSE 2 * Pow2(n - 1)

(* bit k (0 = least significant) of byte b *)
Bit(b, k) == (b \div Pow2(k)) % 2

(* b | m for a one-bit mask m = 2^k *)
OrBit(b, k) == IF Bit(b, k) = 1 THEN b ELSE b + Pow2(k)

(* all sequences of length n over S *)
RECURSIVE SeqsOfLen(_, _)
SeqsOfLen(S, n) ==
    IF n = 0 THEN { <<>> }
    ELSE { <<b>> \o s : b \in S, s \in SeqsOfLen(S, n - 1) }

Zeros(n) == [i \in 1..n |-> 0]

----------------------------------------------------------------------------
(* printf conversions *)

DigitChars == << "0", "1", "2", "3", "4", "5", "6", "7", "8", "9" >>

(* %u / %zu : decimal digits, most significant first *)
RECURSIVE FormatUnsigned(_)
FormatUnsigned(n) ==
    IF n < 10 THEN << DigitChars[n + 1] >>
    ELSE FormatUnsigned(n \div 10) \o << DigitChars[(n % 10) + 1] >>

(* %d *)
FormatInt(n) ==
    IF n < 0 THEN << "-" >> \o FormatUnsigned(0 - n) ELSE FormatUnsigned(n)

(* pjl_printf(fmt, arg): one line, CR LF appended *)
PjlLine(key, val) == [k |-> key, v |-> val, crlf |-> TRUE, raw |-> << >>]

(* fprintf(stdout, ...) of an escape sequence *)
EscLine(key, eol) == [k |-> key, v |-> << >>, crlf |-> eol, raw |-> << >>]

----------------------------------------------------------------------------
(* cups_to_pjl_paper: strcasecmp against the eight known names *)

UpperChars == << "A", "B", "C", "D", "E", "F", "G", "H", "I", "J", "K", "L", "M",
                 "N", "O", "P", "Q", "R", "S", "T", "U", "V", "W", "X", "Y", "Z" >>
LowerChars == << "a", "b", "c", "d", "e", "f", "g", "h", "i", "j", "k", "l", "m",
                 "n", "o", "p", "q", "r", "s", "t", "u", "v", "w", "x", "y", "z" >>

ToLowerChar(c) ==
    IF \E i \in 1..26 : UpperChars[i] = c
    THEN LowerChars[CHOOSE i \in 1..26 : UpperChars[i] = c]
    ELSE c

StrCaseEq_Exact(a, b) == a = b

(* strcasecmp(a, b) == 0 *)
StrCaseEq(a, b) ==
    /\ Len(a) = Len(b)
    /\ \A i \in 1..Len(a) : ToLowerChar(a[i]) = ToLowerChar(b[i])

(* a const char *: NULL, or the address of the characters s *)
NullStr == [null |-> TRUE, s |-> << >>]
StrPtr(chars) == [null |-> FALSE, s |-> chars]

cups_to_pjl_paper(cups_size) ==
    IF cups_size.null THEN "A4"
    ELSE IF StrCaseEq(cups_size.s, << "A", "4" >>) THEN "A4"
    ELSE IF StrCaseEq(cups_size.s, << "L", "e", "t", "t", "e", "r" >>) THEN "LETTER"
    ELSE IF StrCaseEq(cups_size.s, << "L", "e", "g", "a", "l" >>) THEN "LEGAL"
    ELSE IF StrCaseEq(cups_size.s, << "A", "5" >>) THEN "A5"
    ELSE IF StrCaseEq(cups_size.s, << "A", "6" >>) THEN "A6"
    ELSE IF StrCaseEq(cups_size.s, << "B", "5" >>) THEN "B5"
    ELSE IF StrCaseEq(cups_size.s, << "B", "6" >>) THEN "B6"
    ELSE IF StrCaseEq(cups_size.s, << "M", "o", "n", "a", "r", "c", "h" >>) THEN "MONARCH"
    ELSE "A4"

MediaSource_Truthy(h) == IF h.MediaPosition # 0 THEN "MANUALFEED" ELSE "TRAY1"

(* mediasource = "TRAY1"; if (header.MediaPosition == 1) mediasource = "MANUALFEED" *)
MediaSource(h) == IF h.MediaPosition = 1 THEN "MANUALFEED" ELSE "TRAY1"

----------------------------------------------------------------------------
(* raster_to_pbm *)

(* unsigned int pbm_stride = (width + 7) / 8; the widths of the header sets
   below keep width + 7 far from the 32-bit wrap *)
PbmStride(width) == (width + 7) \div 8

(* size_t pbm_size = (size_t)pbm_stride * height *)
PbmSize(width, height) == PbmStride(width) * height

IsBlack_OffByOne(cs, v) ==
    IF cs = CUPS_CSPACE_W \/ cs = CUPS_CSPACE_SW
    THEN v <= Threshold
    ELSE v > Threshold

(* the 8-bit classification: COLORSPACE_W / SW have 0 = black *)
IsBlack(cs, v) ==
    IF cs = CUPS_CSPACE_W \/ cs = CUPS_CSPACE_SW
    THEN v < Threshold
    ELSE v >= Threshold

(* for (x = 0; x < width; x++) if (black) dst[x / 8] |= (0x80 >> (x % 8)) *)
RECURSIVE PackPixels(_, _, _, _, _)
PackPixels(dst, ln, x, width, cs) ==
    IF x >= width THEN dst
    ELSE PackPixels(IF IsBlack(cs, ln[x + 1])
                    THEN [dst EXCEPT ![(x \div 8) + 1] = OrBit(@, 7 - (x % 8))]
                    ELSE dst,
                    ln, x + 1, width, cs)

(* how many bytes of line[] one row's conversion reads *)
BytesRead(h) ==
    IF h.cupsBitsPerPixel = 1 THEN PbmStride(h.cupsWidth)
    ELSE IF h.cupsBitsPerPixel = 8 THEN h.cupsWidth
    ELSE Min(PbmStride(h.cupsWidth), h.cupsBytesPerLine)

(* bytes read past the end of the malloc(bpl) line buffer *)
OverRead(h) ==
    IF BytesRead(h) > h.cupsBytesPerLine
    THEN BytesRead(h) - h.cupsBytesPerLine
    ELSE 0

ConvertRow_NoFallback(h, ln, dst) ==
    LET stride == PbmStride(h.cupsWidth) IN
    IF h.cupsBitsPerPixel = 1
    THEN [i \in 1..stride |-> ln[i]]
    ELSE IF h.cupsBitsPerPixel = 8
    THEN PackPixels(Zeros(stride), ln, 0, h.cupsWidth, h.cupsColorSpace)
    ELSE dst

(* one row: ln is what line[0 .. ] reads as, dst the row as calloc left it *)
ConvertRow(h, ln, dst) ==
    LET stride == PbmStride(h.cupsWidth) IN
    IF h.cupsBitsPerPixel = 1
    THEN [i \in 1..stride |-> ln[i]]
    ELSE IF h.cupsBitsPerPixel = 8
    THEN PackPixels(Zeros(stride), ln, 0, h.cupsWidth, h.cupsColorSpace)
    ELSE LET n == Min(stride, h.cupsBytesPerLine) IN
         [i \in 1..stride |-> IF i <= n THEN ln[i] ELSE dst[i]]

(* row r (0-based) of a flat bitmap *)
RowOf(mem, r, stride) == [i \in 1..stride |-> mem[r * stride + i]]

(* dst = pbm + y * pbm_stride, then the row is stored there *)
StoreRow(mem, r, stride, row) ==
    [i \in 1..Len(mem) |->
        IF r * stride < i /\ i <= (r + 1) * stride THEN row[i - r * stride] ELSE mem[i]]

(* the page's buffers: pbm (calloc, line 54), line (malloc, line 55), jbig (the
   buf.data of pbm_to_jbig, malloc at line 146, main's jbig once returned) *)
Buffers == {"pbm", "line", "jbig"}

NoHeap == [allocs |-> [b \in Buffers |-> 0], frees |-> [b \in Buffers |-> 0]]

(* a successful calloc / malloc of buffer b *)
Allocated(h, b) == [h EXCEPT !.allocs[b] = @ + 1]

(* free(p) of buffer b; free(NULL) does nothing *)
Freed(h, b, p) == IF p.alloc THEN [h EXCEPT !.frees[b] = @ + 1] ELSE h

NullPtr == [alloc |-> FALSE, mem |-> << >>]
HeapPtr(m) == [alloc |-> TRUE, mem |-> m]

----------------------------------------------------------------------------
(* jbig_buffer_t and jbig_data_cb *)

(* number of bytes in a sequence of chunks *)
RECURSIVE NBytes(_)
NBytes(segs) == IF segs = << >> THEN 0 ELSE Head(segs).len + NBytes(Tail(segs))

(* the first n bytes of a sequence of chunks *)
RECURSIVE TakeBytes(_, _)
TakeBytes(segs, n) ==
    IF n = 0 \/ segs = << >> THEN << >>
    ELSE IF Head(segs).len <= n
         THEN << Head(segs) >> \o TakeBytes(Tail(segs), n - Head(segs).len)
         ELSE << [id |-> Head(segs).id, len |-> n] >>

NullBuf == [alloc |-> FALSE, data |-> << >>, size |-> 0, capacity |-> 0]

NewCap_DoubleOnly(b, len) == b.capacity * 2

(* new_cap = capacity * 2; if (new_cap < size + len) new_cap = size + len + 65536 *)
NewCap(b, len) ==
    IF b.capacity * 2 < b.size + len
    THEN b.size + len + GrowSlack
    ELSE b.capacity * 2

(* memcpy(buf->data + buf->size, start, len); buf->size += len *)
BufAppend(b, chunk) ==
    [b EXCEPT !.data = TakeBytes(b.data, b.size) \o << chunk >>,
              !.size = b.size + chunk.len]

(* jbig_data_cb(start, len, file); realloc_ok is what realloc does if called *)
jbig_data_cb(b, chunk, realloc_ok) ==
    IF b.size + chunk.len > b.capacity
    THEN IF realloc_ok
         THEN BufAppend([b EXCEPT !.capacity = NewCap(b, chunk.len)], chunk)
         ELSE b
    ELSE BufAppend(b, chunk)

----------------------------------------------------------------------------
(* The PJL frames main writes *)

KJobStart == "<ESC>%-12345X@PJL"
KPageStart == "@PJL SET PAGESTATUS=START"
KImageLen == "@PJL SET IMAGELEN="
KDotCount == "@PJL SET DOTCOUNT=1132782"
KPageEnd == "@PJL SET PAGESTATUS=END"
KEoj == "@PJL EOJ"
KJobExit == "<ESC>%-12345X"

(* lines 249-255 *)
JobHeader(ts, usr) ==
    << EscLine(KJobStart, TRUE),
       PjlLine("@PJL SET TIMESTAMP=", << ts >>),
       PjlLine("@PJL SET FILENAME=Document", << >>),
       PjlLine("@PJL SET COMPRESS=JBIG", << >>),
       PjlLine("@PJL SET USERNAME=", << usr >>),
       PjlLine("@PJL SET COVER=OFF", << >>),
       PjlLine("@PJL SET HOLD=OFF", << >>) >>

(* lines 259-273; width and height are raster_to_pbm's *out_width, *out_height *)
PageHeader(h, size) ==
    << PjlLine(KPageStart, << >>),
       PjlLine("@PJL SET COPIES=1", << >>),
       PjlLine("@PJL SET MEDIASOURCE=", << MediaSource(h) >>),
       PjlLine("@PJL SET MEDIATYPE=PLAINRECYCLE", << >>),
       PjlLine("@PJL SET PAPER=", << cups_to_pjl_paper(StrPtr(h.cupsPageSizeName)) >>),
       PjlLine("@PJL SET PAPERWIDTH=", FormatUnsigned(h.cupsWidth)),
       PjlLine("@PJL SET PAPERLENGTH=", FormatUnsigned(h.cupsHeight)),
       PjlLine("@PJL SET RESOLUTION=", FormatInt(h.HWResolution0)),
       PjlLine(KImageLen, FormatUnsigned(size)) >>

write_bytes_Capped(data, len) ==
    << [k |-> "", v |-> << >>, crlf |-> FALSE,
        raw |-> TakeBytes(data, Min(len, InitialCapacity))] >>

(* write_bytes(jbig, jbig_size): fwrite of the first len bytes *)
write_bytes(data, len) ==
    << [k |-> "", v |-> << >>, crlf |-> FALSE, raw |-> TakeBytes(data, len)] >>

PageFooter_Swapped ==
    << PjlLine(KPageEnd, << >>),
       PjlLine(KDotCount, << >>) >>

(* lines 280-281 *)
PageFooter ==
    << PjlLine(KDotCount, << >>),
       PjlLine(KPageEnd, << >>) >>

(* lines 288-289 *)
JobFooterLines ==
    << PjlLine(KEoj, << >>),
       EscLine(KJobExit, FALSE) >>

FirstPage_EveryPage(n) == n >= 0

(* if (page_count == 0): the job header is due *)
FirstPage(n) == n = 0

(* if (page_count > 0): the job footer is due *)
AnyPage(n) == n > 0

ExitCode_Swapped(n) == IF n > 0 THEN 1 ELSE 0

(* return page_count > 0 ? 0 : 1 *)
ExitCode(n) == IF n > 0 THEN 0 ELSE 1

EmptyPage_HeightOnly(h) == h.cupsHeight = 0

(* if (header.cupsBytesPerLine == 0 || header.cupsHeight == 0) *)
EmptyPage(h) == h.cupsBytesPerLine = 0 \/ h.cupsHeight = 0

(* lines 247-283: everything main writes for one page *)
PageOutput(n, ts, usr, h, data, size) ==
    (IF FirstPage(n) THEN JobHeader(ts, usr) ELSE << >>)
    \o PageHeader(h, size) \o write_bytes(data, size) \o PageFooter

----------------------------------------------------------------------------
(* Inputs *)

Hdr(w, h, bpl, bpp, cs, mp, name, res) ==
    [cupsWidth |-> w, cupsHeight |-> h, cupsBytesPerLine |-> bpl,
     cupsBitsPerPixel |-> bpp, cupsColorSpace |-> cs, MediaPosition |-> mp,
     cupsPageSizeName |-> name, HWResolution0 |-> res]

NoHeader == Hdr(0, 0, 0, 0, 0, 0, << >>, 0)

Argcs == {1, 7}
UserArg == "alice"
Timestamps == {"2026/01/02 03:04:05"}

(* page headers of the job-level specification *)
JobHeaders ==
    { Hdr(3, 2, 1, 1, CUPS_CSPACE_K, 0, << "A", "4" >>, 600),
      Hdr(2, 1, 2, 8, CUPS_CSPACE_W, 1, << "l", "e", "t", "t", "e", "r" >>, 600),
      Hdr(9, 1, 1, 1, CUPS_CSPACE_K, 2, << "B", "5" >>, 300),
      Hdr(3, 2, 2, 4, CUPS_CSPACE_K, 0, << "A", "4" >>, 600),
      Hdr(9, 1, 1, 4, CUPS_CSPACE_K, 2, << "B", "5" >>, 300),
      Hdr(3, 0, 1, 1, CUPS_CSPACE_K, 0, << "A", "4" >>, 600),
      Hdr(3, 2, 0, 1, CUPS_CSPACE_K, 0, << "A", "4" >>, 600) }

JobBytes == {255}
JobGarbage == {0, 255}
JobChunkLens == {70000}

----------------------------------------------------------------------------
(* The program *)

Init ==
    /\ pc = "start"
    /\ argc \in Argcs
    /\ user = (IF argc > 2 THEN UserArg ELSE "unknown")
    /\ fd = -1
    /\ ras = FALSE
    /\ timestamp = ""
    /\ header = NoHeader
    /\ page_count = 0
    /\ pbm = NullPtr
    /\ line = NullPtr
    /\ y = 0
    /\ buf = NullBuf
    /\ jbig = NullPtr
    /\ jbig_size = 0
    /\ out = << >>
    /\ exit_status = -1
    /\ hdr_reads = 0
    /\ nreads = 0
    /\ src_lines = << >>
    /\ short_at = -1
    /\ cb_calls = << >>
    /\ realloc_failed = FALSE
    /\ outcome = "none"
    /\ heap = NoHeap

pageVars == << header, page_count, pbm, line, y, buf, jbig, jbig_size, out,
               hdr_reads, nreads, src_lines, short_at, cb_calls, realloc_failed,
               outcome, heap >>

(* lines 192-200: open(argv[6]) when argc >= 7, else stdin *)
OpenInput ==
    /\ pc = "start"
    /\ IF argc >= ArgcForFile
       THEN \E ok \in BOOLEAN :
              IF ok
              THEN fd' = 3 /\ pc' = "raster_open" /\ exit_status' = exit_status
              ELSE fd' = -1 /\ pc' = "done" /\ exit_status' = 1
       ELSE fd' = 0 /\ pc' = "raster_open" /\ exit_status' = exit_status
    /\ UNCHANGED << argc, user, ras, timestamp >>
    /\ UNCHANGED pageVars

(* lines 202-212: cupsRasterOpen, then the timestamp *)
RasterOpen ==
    /\ pc = "raster_open"
    /\ \E ok \in BOOLEAN :
         IF ok
         THEN /\ ras' = TRUE
              /\ timestamp' \in Timestamps
              /\ pc' = "loop"
              /\ exit_status' = exit_status
         ELSE /\ ras' = FALSE
              /\ timestamp' = timestamp
              /\ pc' = "done"
              /\ exit_status' = 1
    /\ UNCHANGED << argc, user, fd >>
    /\ UNCHANGED pageVars

(* lines 215-227: cupsRasterReadHeader2 delivers a header; the empty-page test *)
ReadHeader(HS) ==
    /\ pc = "loop"
    /\ hdr_reads < MaxPages
    /\ \E h \in HS :
         /\ header' = h
         /\ IF EmptyPage(h)
            THEN pc' = "loop" /\ outcome' = "skipped"
            ELSE pc' = "convert" /\ outcome' = "processing"
    /\ hdr_reads' = hdr_reads + 1
    /\ nreads' = 0
    /\ src_lines' = << >>
    /\ short_at' = -1
    /\ cb_calls' = << >>
    /\ realloc_failed' = FALSE
    /\ heap' = NoHeap
    /\ UNCHANGED << argc, user, fd, ras, timestamp, page_count, pbm, line, y, buf,
                    jbig, jbig_size, out, exit_status >>

(* line 215: cupsRasterReadHeader2 returns 0, the loop ends *)
ReadHeaderEnd ==
    /\ pc = "loop"
    /\ pc' = "footer"
    /\ UNCHANGED << argc, user, fd, ras, timestamp, exit_status >>
    /\ UNCHANGED pageVars

(* lines 48-62 and 230-234: raster_to_pbm's allocations; NULL makes main continue *)
RasterToPbmAlloc ==
    /\ pc = "convert"
    /\ \E pbm_ok \in BOOLEAN, line_ok \in BOOLEAN :
         LET p == IF pbm_ok
                  THEN HeapPtr(Zeros(PbmSize(header.cupsWidth, header.cupsHeight)))
                  ELSE NullPtr
             l == IF line_ok THEN HeapPtr(<< >>) ELSE NullPtr
             h1 == IF pbm_ok THEN Allocated(heap, "pbm") ELSE heap
             h2 == IF line_ok THEN Allocated(h1, "line") ELSE h1
         IN IF pbm_ok /\ line_ok
            THEN /\ pbm' = p
                 /\ line' = l
                 /\ heap' = h2
                 /\ pc' = "rows"
                 /\ outcome' = outcome
            ELSE /\ pbm' = NullPtr
                 /\ line' = NullPtr
                 /\ heap' = Freed(Freed(h2, "pbm", p), "line", l)
                 /\ pc' = "loop"
                 /\ outcome' = "convert_failed"
    /\ y' = 0
    /\ UNCHANGED << argc, user, fd, ras, timestamp, header, page_count, buf, jbig,
                    jbig_size, out, exit_status, hdr_reads, nreads, src_lines,
                    short_at, cb_calls, realloc_failed >>

ReadRowShort_Abandon ==
    /\ pc = "rows"
    /\ y < header.cupsHeight
    /\ nreads' = nreads + 1
    /\ short_at' = y
    /\ line' = NullPtr
    /\ pbm' = NullPtr
    /\ heap' = Freed(Freed(heap, "line", line), "pbm", pbm)
    /\ pc' = "loop"
    /\ outcome' = "convert_failed"
    /\ UNCHANGED << argc, user, fd, ras, timestamp, header, page_count, y, buf,
                    jbig, jbig_size, out, exit_status, hdr_reads, src_lines,
                    cb_calls, realloc_failed >>

ReadRowShort_Clear ==
    /\ pc = "rows"
    /\ y < header.cupsHeight
    /\ nreads' = nreads + 1
    /\ short_at' = y
    /\ line' = NullPtr
    /\ heap' = Freed(heap, "line", line)
    /\ pbm' = HeapPtr(Zeros(Len(pbm.mem)))
    /\ pc' = "compress"
    /\ UNCHANGED << argc, user, fd, ras, timestamp, header, page_count, y, buf,
                    jbig, jbig_size, out, exit_status, hdr_reads, src_lines,
                    cb_calls, realloc_failed, outcome >>

(* lines 64-68 and 103-107: cupsRasterReadPixels comes up short; break, return pbm *)
ReadRowShort ==
    /\ pc = "rows"
    /\ y < header.cupsHeight
    /\ nreads' = nreads + 1
    /\ short_at' = y
    /\ line' = NullPtr
    /\ heap' = Freed(heap, "line", line)
    /\ pc' = "compress"
    /\ UNCHANGED << argc, user, fd, ras, timestamp, header, page_count, pbm, y, buf,
                    jbig, jbig_size, out, exit_status, hdr_reads, src_lines,
                    cb_calls, realloc_failed, outcome >>

(* lines 64-107: one iteration of the row loop with a full line read; GS are the
   values a read past the end of line[] may yield; the return after the last row *)
ReadRow(LS, GS) ==
    /\ pc = "rows"
    /\ y < header.cupsHeight
    /\ \E src \in LS, g \in SeqsOfLen(GS, OverRead(header)) :
         LET ln == src \o g
             stride == PbmStride(header.cupsWidth)
         IN /\ pbm' = HeapPtr(StoreRow(pbm.mem, y, stride,
                                ConvertRow(header, ln, RowOf(pbm.mem, y, stride))))
            /\ src_lines' = Append(src_lines, ln)
            /\ line' = (IF y + 1 < header.cupsHeight THEN HeapPtr(src) ELSE NullPtr)
            /\ heap' = (IF y + 1 < header.cupsHeight THEN heap
                        ELSE Freed(heap, "line", line))
    /\ nreads' = nreads + 1
    /\ y' = y + 1
    /\ pc' = (IF y + 1 < header.cupsHeight THEN "rows" ELSE "compress")
    /\ UNCHANGED << argc, user, fd, ras, timestamp, header, page_count, buf, jbig,
                    jbig_size, out, exit_status, hdr_reads, short_at, cb_calls,
                    realloc_failed, outcome >>

(* lines 75 and 87-90: the read past the end of line[] faults instead *)
ReadRowFault ==
    /\ pc = "rows"
    /\ y < header.cupsHeight
    /\ OverRead(header) > 0
    /\ nreads' = nreads + 1
    /\ pc' = "crashed"
    /\ UNCHANGED << argc, user, fd, ras, timestamp, header, page_count, pbm, line, y,
                    buf, jbig, jbig_size, out, exit_status, hdr_reads, src_lines,
                    short_at, cb_calls, realloc_failed, outcome, heap >>

PbmToJbigBegin_Leak ==
    /\ pc = "compress"
    /\ \E ok \in BOOLEAN :
         IF ok
         THEN /\ buf' = [alloc |-> TRUE, data |-> << >>, size |-> 0,
                         capacity |-> InitialCapacity]
              /\ heap' = Allocated(heap, "jbig")
              /\ pc' = "encode"
              /\ outcome' = outcome
         ELSE /\ buf' = NullBuf
              /\ heap' = heap
              /\ pc' = "loop"
              /\ outcome' = "compress_failed"
    /\ src_lines' = << >>
    /\ UNCHANGED << argc, user, fd, ras, timestamp, header, page_count, pbm, line, y,
                    jbig, jbig_size, out, exit_status, hdr_reads, nreads, short_at,
                    cb_calls, realloc_failed >>

(* lines 143-150 and 237-242: pbm_to_jbig's malloc; NULL makes main free(pbm) and
   continue *)
PbmToJbigBegin ==
    /\ pc = "compress"
    /\ \E ok \in BOOLEAN :
         IF ok
         THEN /\ buf' = [alloc |-> TRUE, data |-> << >>, size |-> 0,
                         capacity |-> InitialCapacity]
              /\ pbm' = pbm
              /\ heap' = Allocated(heap, "jbig")
              /\ pc' = "encode"
              /\ outcome' = outcome
         ELSE /\ buf' = NullBuf
              /\ pbm' = NullPtr
              /\ heap' = Freed(heap, "pbm", pbm)
              /\ pc' = "loop"
              /\ outcome' = "compress_failed"
    /\ src_lines' = << >>
    /\ UNCHANGED << argc, user, fd, ras, timestamp, header, page_count, line, y, jbig,
                    jbig_size, out, exit_status, hdr_reads, nreads, short_at,
                    cb_calls, realloc_failed >>

(* lines 117-134: jbg_enc_out hands one chunk to jbig_data_cb *)
JbigDataCb(LS) ==
    /\ pc = "encode"
    /\ Len(cb_calls) < MaxChunks
    /\ \E len \in LS, realloc_ok \in BOOLEAN :
         LET chunk == [id |-> Len(cb_calls) + 1, len |-> len] IN
         /\ buf' = jbig_data_cb(buf, chunk, realloc_ok)
         /\ cb_calls' = Append(cb_calls, chunk)
         /\ realloc_failed' =
               (realloc_failed \/ (buf.size + len > buf.capacity /\ ~realloc_ok))
    /\ UNCHANGED << pc, argc, user, fd, ras, timestamp, header, page_count, pbm, line,
                    y, jbig, jbig_size, out, exit_status, hdr_reads, nreads,
                    src_lines, short_at, outcome, heap >>

PbmToJbigEnd_FreeTwice ==
    /\ pc = "encode"
    /\ jbig' = HeapPtr(buf.data)
    /\ jbig_size' = buf.size
    /\ buf' = NullBuf
    /\ pbm' = NullPtr
    /\ heap' = Freed(Freed(heap, "pbm", pbm), "pbm", pbm)
    /\ pc' = "emit"
    /\ UNCHANGED << argc, user, fd, ras, timestamp, header, page_count, line, y, out,
                    exit_status, hdr_reads, nreads, src_lines, short_at, cb_calls,
                    realloc_failed, outcome >>

(* lines 158-162 and 237-238: jbg_enc_out returns; *out_size = buf.size;
   return buf.data; main frees pbm *)
PbmToJbigEnd ==
    /\ pc = "encode"
    /\ jbig' = HeapPtr(buf.data)
    /\ jbig_size' = buf.size
    /\ buf' = NullBuf
    /\ pbm' = NullPtr
    /\ heap' = Freed(heap, "pbm", pbm)
    /\ pc' = "emit"
    /\ UNCHANGED << argc, user, fd, ras, timestamp, header, page_count, line, y, out,
                    exit_status, hdr_reads, nreads, src_lines, short_at, cb_calls,
                    realloc_failed, outcome >>

(* lines 244-283: job header before the first page, the page frame, page_count++ *)
EmitPage ==
    /\ pc = "emit"
    /\ out' = out \o PageOutput(page_count, timestamp, user, header, jbig.mem, jbig_size)
    /\ jbig' = NullPtr
    /\ heap' = Freed(heap, "jbig", jbig)
    /\ page_count' = page_count + 1
    /\ outcome' = "emitted"
    /\ pc' = "loop"
    /\ cb_calls' = << >>
    /\ realloc_failed' = FALSE
    /\ UNCHANGED << argc, user, fd, ras, timestamp, header, pbm, line, y, buf,
                    jbig_size, exit_status, hdr_reads, nreads, src_lines, short_at >>

(* lines 286-300: the job footer, cupsRasterClose, the return value *)
JobFooter ==
    /\ pc = "footer"
    /\ out' = (IF AnyPage(page_count) THEN out \o JobFooterLines ELSE out)
    /\ ras' = FALSE
    /\ exit_status' = ExitCode(page_count)
    /\ pc' = "done"
    /\ UNCHANGED << argc, user, fd, timestamp, header, page_count, pbm, line, y, buf,
                    jbig, jbig_size, hdr_reads, nreads, src_lines, short_at,
                    cb_calls, realloc_failed, outcome, heap >>

JobLines == SeqsOfLen(JobBytes, header.cupsBytesPerLine)

Next ==
    \/ OpenInput
    \/ RasterOpen
    \/ ReadHeader(JobHeaders)
    \/ ReadHeaderEnd
    \/ RasterToPbmAlloc
    \/ ReadRowShort
    \/ ReadRow(JobLines, JobGarbage)
    \/ ReadRowFault
    \/ PbmToJbigBegin
    \/ JbigDataCb(JobChunkLens)
    \/ PbmToJbigEnd
    \/ EmitPage
    \/ JobFooter

Spec == Init /\ [][Next]_vars

----------------------------------------------------------------------------
(* The Normalizer on richer pages: the same program up to raster_to_pbm's return *)

NormHdr(w, h, bpl, bpp, cs) == Hdr(w, h, bpl, bpp, cs, 0, << "A", "4" >>, 600)

NormHeaders ==
    { NormHdr(w, h, bpl, 1, CUPS_CSPACE_K) : w \in {3, 9}, h \in {1, 2}, bpl \in {1, 2, 3} }
    \cup
    { NormHdr(3, h, bpl, 8, cs) :
        h \in {1, 2}, bpl \in {1, 3}, cs \in {CUPS_CSPACE_W, CUPS_CSPACE_K, CUPS_CSPACE_SW} }
    \cup
    { NormHdr(3, 1, 4, 8, CUPS_CSPACE_K) }
    \cup
    { NormHdr(9, 1, 9, 8, cs) : cs \in {CUPS_CSPACE_W, CUPS_CSPACE_K} }
    \cup
    { NormHdr(w, h, bpl, 4, CUPS_CSPACE_K) : w \in {3, 9}, h \in {1, 2}, bpl \in {1, 2, 3} }

NormBytes == {0, 127, 128, 255}
NormBytesLong == {127, 128}
NormGarbage == {0, 255}

NormLines ==
    IF header.cupsBytesPerLine > 4
    THEN SeqsOfLen(NormBytesLong, header.cupsBytesPerLine)
    ELSE SeqsOfLen(NormBytes, header.cupsBytesPerLine)

NextNorm ==
    \/ OpenInput
    \/ RasterOpen
    \/ ReadHeader(NormHeaders)
    \/ ReadHeaderEnd
    \/ RasterToPbmAlloc
    \/ ReadRowShort
    \/ ReadRow(NormLines, NormGarbage)
    \/ ReadRowFault
    \/ JobFooter

SpecNorm == Init /\ [][NextNorm]_vars

----------------------------------------------------------------------------
(* The paper-name mapping on many names: the same program on one-row pages that
   differ in cupsPageSizeName only; the codec's output is left empty *)

ToUpperChar(c) ==
    IF \E i \in 1..26 : LowerChars[i] = c
    THEN UpperChars[CHOOSE i \in 1..26 : LowerChars[i] = c]
    ELSE c

Lower(s) == [i \in 1..Len(s) |-> ToLowerChar(s[i])]
Upper(s) == [i \in 1..Len(s) |-> ToUpperChar(s[i])]
Mixed(s) == [i \in 1..Len(s) |-> IF i % 2 = 1 THEN ToLowerChar(s[i])
                                               ELSE ToUpperChar(s[i])]

(* the names compared against at lines 168-175, as written there *)
KnownNames ==
    { << "A", "4" >>, << "L", "e", "t", "t", "e", "r" >>, << "L", "e", "g", "a", "l" >>,
      << "A", "5" >>, << "A", "6" >>, << "B", "5" >>, << "B", "6" >>,
      << "M", "o", "n", "a", "r", "c", "h" >> }

(* names no comparison accepts: empty, unknown, a prefix of a known name, a known
   name with a character more, look-alikes *)
OtherNames ==
    { << >>, << "C", "5" >>, << "A" >>, << "A", "4", "4" >>, << "A", "4", " " >>,
      << "4", "A" >>, << "L", "e", "t", "t", "e" >>,
      << "L", "e", "t", "t", "e", "r", "r" >>, << "L", "e", "g", "a", "1" >>,
      << "E", "x", "e", "c", "u", "t", "i", "v", "e" >> }

PaperNames ==
    KnownNames \cup { Lower(n) : n \in KnownNames } \cup { Upper(n) : n \in KnownNames }
    \cup { Mixed(n) : n \in KnownNames } \cup OtherNames

PaperHeaders == { Hdr(3, 1, 1, 1, CUPS_CSPACE_K, 0, n, 600) : n \in PaperNames }

NextPaper ==
    \/ OpenInput
    \/ RasterOpen
    \/ ReadHeader(PaperHeaders)
    \/ ReadHeaderEnd
    \/ RasterToPbmAlloc
    \/ ReadRow(JobLines, JobGarbage)
    \/ PbmToJbigBegin
    \/ PbmToJbigEnd
    \/ EmitPage
    \/ JobFooter

SpecPaper == Init /\ [][NextPaper]_vars

----------------------------------------------------------------------------
(* The output buffer on chunks of many sizes: the same program up to
   pbm_to_jbig's return, on one-row pages; the codec hands over chunks that fit,
   that need the capacity doubled, and that doubling is not enough for *)

BufHeaders == { Hdr(3, 1, 1, 1, CUPS_CSPACE_K, 0, << "A", "4" >>, 600) }

BufChunkLens == {1, 65536, 200000}

NextBuf ==
    \/ OpenInput
    \/ RasterOpen
    \/ ReadHeader(BufHeaders)
    \/ ReadHeaderEnd
    \/ RasterToPbmAlloc
    \/ ReadRow(JobLines, JobGarbage)
    \/ PbmToJbigBegin
    \/ JbigDataCb(BufChunkLens)
    \/ PbmToJbigEnd
    \/ JobFooter

SpecBuf == Init /\ [][NextBuf]_vars

----------------------------------------------------------------------------
(* Reading the output stream back *)

(* positions in out of the items with key k *)
Idx(key) == { i \in 1..Len(out) : out[i].k = key }

(* positions in out of the raw (payload) items *)
RawIdx == { i \in 1..Len(out) : out[i].k = "" }

DigitVal(c) == CHOOSE d \in 0..9 : DigitChars[d + 1] = c

RECURSIVE ParseUnsigned(_)
ParseUnsigned(ds) ==
    IF ds = << >> THEN 0
    ELSE ParseUnsigned(SubSeq(ds, 1, Len(ds) - 1)) * 10 + DigitVal(ds[Len(ds)])

(* the last n items written *)
LastItems(n) == SubSeq(out, Len(out) - n + 1, Len(out))

----------------------------------------------------------------------------
(* C1: the job header is in the output iff a page frame is, exactly once, first
   in the stream and directly before the first PAGESTATUS=START; the job trailer
   (EOJ, exit escape) is absent while the loop runs and, once main has returned,
   present iff a page frame is, exactly once, as the last two items, after the
   last PAGESTATUS=END.  No page frame means an empty stream. *)
C1_JobEnvelope ==
    LET starts == Idx(KPageStart)
        ends == Idx(KPageEnd)
        hdrs == Idx(KJobStart)
        eojs == Idx(KEoj)
        exits == Idx(KJobExit)
    IN /\ Cardinality(hdrs) = (IF starts # {} THEN 1 ELSE 0)
       /\ starts = {} => out = << >>
       /\ starts # {} =>
            /\ SubSeq(out, 1, 7) = JobHeader(timestamp, user)
            /\ \A i \in starts : i >= 8
            /\ 8 \in starts
       /\ pc # "done" => eojs = {} /\ exits = {}
       /\ pc = "done" =>
            /\ Cardinality(eojs) = (IF starts # {} THEN 1 ELSE 0)
            /\ Cardinality(exits) = (IF starts # {} THEN 1 ELSE 0)
            /\ \A e \in eojs :
                 /\ e = Len(out) - 1
                 /\ Len(out) \in exits
                 /\ \A x \in starts \cup ends : x < e
                 /\ e - 1 \in ends

(* C1 witness: main has returned after two headers, one page was emitted and the
   other one skipped or abandoned *)
C1_Witness ==
    /\ pc = "done"
    /\ hdr_reads = 2
    /\ Cardinality(Idx(KPageStart)) = 1
    /\ Cardinality(Idx(KEoj)) = 1

(* C2: once main has returned, the exit status is 0 iff at least one page frame
   was written, else 1; it is 1 when open() failed, when cupsRasterOpen failed and
   when no page was emitted; while main runs there is no status *)
C2_ExitStatus ==
    /\ pc = "done" =>
         /\ exit_status \in {0, 1}
         /\ exit_status = 0 <=> Idx(KPageStart) # {}
         /\ fd = -1 => exit_status = 1
         /\ ~ras /\ timestamp = "" => exit_status = 1
         /\ page_count = 0 => exit_status = 1
    /\ pc # "done" => exit_status = -1

(* C2 witness: every page of a two-page job was skipped or abandoned; exit 1 *)
C2_Witness ==
    /\ pc = "done"
    /\ hdr_reads = 2
    /\ outcome \in {"convert_failed", "compress_failed"}
    /\ exit_status = 1

(* C3: every IMAGELEN line is followed by one raw payload item and then the
   DOTCOUNT line, and the number it announces, read back from its decimal digits,
   is the number of payload bytes written; there is no other payload item *)
C3_ImageLen ==
    /\ \A i \in Idx(KImageLen) :
         /\ i + 2 <= Len(out)
         /\ i + 1 \in RawIdx
         /\ out[i + 2].k = KDotCount
         /\ ParseUnsigned(out[i].v) = NBytes(out[i + 1].raw)
    /\ \A j \in RawIdx : j > 1 /\ j - 1 \in Idx(KImageLen)

(* C3 witness: a frame whose payload was collected from two callbacks, both kept *)
C3_Witness ==
    \E i \in Idx(KImageLen) :
       /\ Len(out[i + 1].raw) = 2
       /\ out[i].v = << "1", "4", "0", "0", "0", "0" >>

----------------------------------------------------------------------------
NothingAllocated == ~pbm.alloc /\ ~line.alloc /\ ~buf.alloc /\ ~jbig.alloc

(* the frame of the page described by header is the last thing in the stream
   (before the job trailer, once main has returned) *)
LastFrameIsThisPage ==
    LET n == IF pc = "done" THEN Len(out) - 2 ELSE Len(out) IN
    /\ n >= 12
    /\ SubSeq(out, n - 11, n - 3) = PageHeader(header, jbig_size)
    /\ n - 2 \in RawIdx
    /\ SubSeq(out, n - 1, n) = PageFooter

(* C4 as claimed: a page with a short pixel-line read is abandoned, nothing is
   written for it and it is not counted *)
C4_AsClaimed ==
    short_at >= 0 => outcome # "emitted" /\ pc # "emit"

(* C4 amended: a page with a short read at row y is not abandoned: no further
   line is read, raster_to_pbm returns the full-size bitmap, the page goes on to
   the compressor and, unless pbm_to_jbig's first malloc fails, is emitted as a
   complete page frame and counted; the loop then reads the next header *)
C4_ShortReadEmitted ==
    short_at >= 0 =>
      /\ pc \in {"compress", "encode", "emit", "loop", "footer", "done"}
      /\ nreads = short_at + 1
      /\ pc \in {"compress", "encode"} =>
           /\ pbm.alloc
           /\ Len(pbm.mem) = PbmSize(header.cupsWidth, header.cupsHeight)
      /\ pc \in {"loop", "footer", "done"} => outcome \in {"emitted", "compress_failed"}
      /\ outcome = "emitted" => page_count >= 1 /\ LastFrameIsThisPage

(* C4 witness: the second row of a two-row page came up short and the page was
   emitted all the same *)
C4_Witness ==
    /\ short_at = 1
    /\ pc = "loop"
    /\ outcome = "emitted"
    /\ page_count = 1

(* C5 as claimed: once a realloc in jbig_data_cb has failed, the adapter reports
   failure, the page is abandoned (no frame, not counted) and bitmap and output
   buffer are released *)
C5_AsClaimed ==
    realloc_failed =>
      /\ pc \in {"encode", "loop", "footer", "done"}
      /\ pc # "encode" => outcome = "compress_failed" /\ NothingAllocated

(* C6 as claimed: what pbm_to_jbig returns is the concatenation of all chunks
   the codec handed to the callback, in call order, and its length their sum *)
C6_AsClaimed ==
    pc = "emit" => jbig.mem = cb_calls /\ jbig_size = NBytes(cb_calls)

(* C7: when an allocation of raster_to_pbm (bitmap or line buffer) or the first
   malloc of pbm_to_jbig fails, the iteration ends there: nothing is written, the
   page is not counted, nothing stays allocated and the loop is back at reading a
   header; rows are read only with both buffers allocated, the codec runs only
   with bitmap and output buffer allocated, and output is written only by the
   emission and job footer steps *)
C7_Step ==
    LET abandoned ==
          /\ pc' = "loop"
          /\ outcome' \in {"convert_failed", "compress_failed"}
          /\ out' = out
          /\ page_count' = page_count
          /\ ~pbm'.alloc /\ ~line'.alloc /\ ~buf'.alloc /\ ~jbig'.alloc
    IN /\ out' # out => pc \in {"emit", "footer"}
       /\ pc = "convert" /\ pc' # "convert" /\ pc' # "rows" => abandoned
       /\ pc = "compress" /\ pc' # "compress" /\ pc' # "encode" => abandoned
       /\ pc' = "rows" => pbm'.alloc /\ line'.alloc
       /\ pc' = "encode" => pbm'.alloc /\ buf'.alloc

C7_AllocFailureAbandons == [][C7_Step]_vars

(* C7 witness: the second page of a job was abandoned on an allocation failure
   after the first one had been emitted *)
C7_Witness ==
    /\ pc = "loop"
    /\ hdr_reads = 2
    /\ outcome = "compress_failed"
    /\ page_count = 1
    /\ NothingAllocated

(* C8: a header with height 0 or stride 0 ends its iteration in the step that
   reads it: nothing is written, the page is not counted, no line is read,
   nothing is allocated, no callback runs, and the loop is back at reading a
   header; raster_to_pbm and pbm_to_jbig never run on such a header *)
C8_Step ==
    /\ (hdr_reads' = hdr_reads + 1
        /\ (header'.cupsHeight = 0 \/ header'.cupsBytesPerLine = 0)) =>
          /\ pc' = "loop"
          /\ outcome' = "skipped"
          /\ out' = out
          /\ page_count' = page_count
          /\ nreads' = 0
          /\ cb_calls' = << >>
          /\ ~pbm'.alloc /\ ~line'.alloc /\ ~buf'.alloc /\ ~jbig'.alloc
    /\ pc' \in {"convert", "rows", "compress", "encode", "emit"} =>
          header'.cupsHeight # 0 /\ header'.cupsBytesPerLine # 0

C8_EmptyPageSkipped == [][C8_Step]_vars

(* C8 witness: a stride-0 page was skipped after an emitted page *)
C8_Witness ==
    /\ pc = "loop"
    /\ outcome = "skipped"
    /\ header.cupsBytesPerLine = 0
    /\ header.cupsHeight # 0
    /\ page_count = 1

----------------------------------------------------------------------------
(* a bitmap is being filled or has just been returned by raster_to_pbm *)
Converting == pbm.alloc /\ pc \in {"rows", "compress"}

(* bit for pixel x (0-based) of a canonical row: bit 7 - x mod 8 of byte x div 8 *)
PixelBit(row, x) == Bit(row[(x \div 8) + 1], 7 - (x % 8))

(* C9: on an 8-bit page, in every converted row, the bit of pixel x < width is 1
   iff the value line[x] read as is >= 128 (K colour space) or < 128 (W and SW
   colour spaces), and every bit from position width on is 0 *)
C9_Threshold8 ==
    (Converting /\ header.cupsBitsPerPixel = 8) =>
      \A r \in 0..(Len(src_lines) - 1) :
        LET row == RowOf(pbm.mem, r, PbmStride(header.cupsWidth))
            ln == src_lines[r + 1]
        IN /\ \A x \in 0..(header.cupsWidth - 1) :
                /\ header.cupsColorSpace = CUPS_CSPACE_K =>
                     (PixelBit(row, x) = 1 <=> ln[x + 1] >= 128)
                /\ header.cupsColorSpace \in {CUPS_CSPACE_W, CUPS_CSPACE_SW} =>
                     (PixelBit(row, x) = 1 <=> ln[x + 1] < 128)
           /\ \A x \in header.cupsWidth..(8 * PbmStride(header.cupsWidth) - 1) :
                PixelBit(row, x) = 0

(* C9 witness: a 9-pixel K page (two canonical bytes per row) whose line holds
   127 and 128 has been converted *)
C9_Witness ==
    /\ pc = "compress"
    /\ short_at = -1
    /\ header.cupsBitsPerPixel = 8
    /\ header.cupsWidth = 9
    /\ header.cupsColorSpace = CUPS_CSPACE_K
    /\ src_lines[1][1] = 127
    /\ src_lines[1][2] = 128
    /\ src_lines[1][9] = 128
    /\ pbm.mem = << 64, 128 >>

(* C10 as claimed: on a 1-bit page every converted row is the source line's
   bytes cut to the canonical stride, zero-padded when the source line is
   shorter, and nothing beyond the stride bytes of the source line is read *)
C10_AsClaimed ==
    (Converting /\ header.cupsBitsPerPixel = 1) =>
      \A r \in 0..(Len(src_lines) - 1) :
        LET row == RowOf(pbm.mem, r, PbmStride(header.cupsWidth))
            ln == src_lines[r + 1]
        IN /\ Len(ln) = header.cupsBytesPerLine
           /\ \A i \in 1..PbmStride(header.cupsWidth) :
                row[i] = (IF i <= header.cupsBytesPerLine THEN ln[i] ELSE 0)

(* C11 as claimed: whatever the bit depth and the line contents, in every
   converted row of the bitmap each bit from position width up to the end of the
   row's last byte is 0 *)
C11_AsClaimed ==
    Converting =>
      \A r \in 0..(Len(src_lines) - 1) :
        LET row == RowOf(pbm.mem, r, PbmStride(header.cupsWidth)) IN
        \A x \in header.cupsWidth..(8 * PbmStride(header.cupsWidth) - 1) :
          PixelBit(row, x) = 0

----------------------------------------------------------------------------
KMediaSource == "@PJL SET MEDIASOURCE="

(* what a step appends to the output *)
Written == SubSeq(out', Len(out) + 1, Len(out'))

(* C12: the step that emits a page writes exactly one MEDIASOURCE line, and that
   line says MANUALFEED iff the media position in the header of the page being
   emitted is 1 and TRAY1 for every other value; that header is the one the
   iteration read (it changes only when a header is read); no other step writes
   a MEDIASOURCE line, and what was written before stays as it is *)
C12_Step ==
    LET ms == { i \in 1..Len(Written) : Written[i].k = KMediaSource } IN
    /\ Len(out') >= Len(out) /\ SubSeq(out', 1, Len(out)) = out
    /\ header' # header => hdr_reads' = hdr_reads + 1 /\ out' = out
    /\ page_count' # page_count =>
         /\ page_count' = page_count + 1
         /\ Cardinality(ms) = 1
         /\ \A i \in ms :
              Written[i].v = (IF header.MediaPosition = 1
                              THEN << "MANUALFEED" >> ELSE << "TRAY1" >>)
    /\ page_count' = page_count => ms = {}

C12_MediaSource == [][C12_Step]_vars

(* C12 witness: a two-page job whose first page had media position 1 and whose
   second page had media position 2: MANUALFEED in the first frame, TRAY1 in the
   second *)
C12_Witness ==
    /\ pc = "loop"
    /\ outcome = "emitted"
    /\ page_count = 2
    /\ header.MediaPosition = 2
    /\ Cardinality(Idx(KMediaSource)) = 2
    /\ \E i, j \in Idx(KMediaSource) :
         /\ i < j
         /\ out[i].v = << "MANUALFEED" >>
         /\ out[j].v = << "TRAY1" >>

----------------------------------------------------------------------------
KPaper == "@PJL SET PAPER="

(* the mapping as the table states it: name as given, name on the PAPER line *)
PaperTable ==
    { << << "A", "4" >>, "A4" >>,
      << << "L", "e", "t", "t", "e", "r" >>, "LETTER" >>,
      << << "L", "e", "g", "a", "l" >>, "LEGAL" >>,
      << << "A", "5" >>, "A5" >>,
      << << "A", "6" >>, "A6" >>,
      << << "B", "5" >>, "B5" >>,
      << << "B", "6" >>, "B6" >>,
      << << "M", "o", "n", "a", "r", "c", "h" >>, "MONARCH" >> }

PjlPapers == { e[2] : e \in PaperTable }

(* c and d are the same character, or the two cases of one letter *)
SameLetter(c, d) ==
    \/ c = d
    \/ \E i \in 1..26 : {c, d} = {UpperChars[i], LowerChars[i]}

(* n is the name t in some letter case *)
InAnyCase(n, t) ==
    /\ Len(n) = Len(t)
    /\ \A i \in 1..Len(n) : SameLetter(n[i], t[i])

Expected(n) ==
    IF \E e \in PaperTable : InAnyCase(n, e[1])
    THEN (CHOOSE e \in PaperTable : InAnyCase(n, e[1]))[2]
    ELSE "A4"

(* C13: the mapping answers for every name, with one of the eight PJL names: a
   name that is one of the eight known names in any letter case maps to that
   name's PJL name, every other name and the absent (NULL) name map to A4; and
   the PAPER line of an emitted page carries the mapping of that page's name *)
C13_PaperMapping ==
    /\ cups_to_pjl_paper(NullStr) = "A4"
    /\ hdr_reads > 0 =>
         LET n == header.cupsPageSizeName
             p == cups_to_pjl_paper(StrPtr(n))
         IN /\ p \in PjlPapers
            /\ p = Expected(n)
    /\ outcome = "emitted" =>
         LET last == IF pc = "done" THEN Len(out) - 2 ELSE Len(out) IN
         /\ out[last - 7].k = KPaper
         /\ out[last - 7].v = << Expected(header.cupsPageSizeName) >>

(* C13 witness: a page named mOnArCh was emitted with PAPER=MONARCH after a page
   that was emitted with PAPER=A4 *)
C13_Witness ==
    /\ pc = "loop"
    /\ outcome = "emitted"
    /\ page_count = 2
    /\ header.cupsPageSizeName = << "m", "O", "n", "A", "r", "C", "h" >>
    /\ \E i, j \in Idx(KPaper) :
         /\ i < j
         /\ out[i].v = << "A4" >>
         /\ out[j].v = << "MONARCH" >>

----------------------------------------------------------------------------
(* the lines of the three parts of a job, as the stream shows them *)
JobHeaderKeys ==
    << "<ESC>%-12345X@PJL", "@PJL SET TIMESTAMP=", "@PJL SET FILENAME=Document",
       "@PJL SET COMPRESS=JBIG", "@PJL SET USERNAME=", "@PJL SET COVER=OFF",
       "@PJL SET HOLD=OFF" >>

FrameKeys ==
    << "@PJL SET PAGESTATUS=START", "@PJL SET COPIES=1", "@PJL SET MEDIASOURCE=",
       "@PJL SET MEDIATYPE=PLAINRECYCLE", "@PJL SET PAPER=", "@PJL SET PAPERWIDTH=",
       "@PJL SET PAPERLENGTH=", "@PJL SET RESOLUTION=", "@PJL SET IMAGELEN=", "",
       "@PJL SET DOTCOUNT=1132782", "@PJL SET PAGESTATUS=END" >>

JobTrailerKeys == << "@PJL EOJ", "<ESC>%-12345X" >>

OutKeys == [i \in 1..Len(out) |-> out[i].k]

(* C14: at every point of a run the stream is empty or is the job header
   followed by one or more whole page frames, each the twelve items START,
   COPIES, MEDIASOURCE, MEDIATYPE, PAPER, PAPERWIDTH, PAPERLENGTH, RESOLUTION,
   IMAGELEN, payload, DOTCOUNT, END in this order, with nothing between frames;
   the page counter equals the number of whole frames in the stream, so it never
   counts a frame whose END line is not written; once main has returned, a
   non-empty stream ends with the job trailer, and before that it has none *)
C14_OutputShape ==
    LET t == IF pc = "done" /\ out # << >> THEN Len(JobTrailerKeys) ELSE 0
        nb == Len(out) - Len(JobHeaderKeys) - t
    IN /\ out = << >> => page_count = 0
       /\ out # << >> =>
            /\ nb >= Len(FrameKeys)
            /\ nb % Len(FrameKeys) = 0
            /\ SubSeq(OutKeys, 1, Len(JobHeaderKeys)) = JobHeaderKeys
            /\ \A i \in 1..nb :
                 /\ OutKeys[Len(JobHeaderKeys) + i] =
                       FrameKeys[((i - 1) % Len(FrameKeys)) + 1]
                 /\ out[Len(JobHeaderKeys) + i].k # "" =>
                       out[Len(JobHeaderKeys) + i].crlf
            /\ page_count = nb \div Len(FrameKeys)
            /\ pc = "done" =>
                 SubSeq(OutKeys, Len(out) - 1, Len(out)) = JobTrailerKeys

(* C14 witness: main has returned from a job of two emitted pages: job header,
   two frames, job trailer *)
C14_Witness ==
    /\ pc = "done"
    /\ page_count = 2
    /\ Len(out) = 33
    /\ OutKeys[8] = "@PJL SET PAGESTATUS=START"
    /\ OutKeys[19] = "@PJL SET PAGESTATUS=END"
    /\ OutKeys[20] = "@PJL SET PAGESTATUS=START"
    /\ OutKeys[31] = "@PJL SET PAGESTATUS=END"
    /\ OutKeys[32] = "@PJL EOJ"

----------------------------------------------------------------------------
(* C15: after the read of row y of a page came up short, that read was the
   page's last one (y + 1 reads in all, until the next header is read);
   raster_to_pbm returns the full-size bitmap in which rows 0..y-1 are what the
   Normalizer made of their lines and rows y..height-1 are all zero; the bitmap
   reaches the codec unchanged, and the page ends emitted (or abandoned by
   pbm_to_jbig's malloc failure); when emitted, the last frame in the stream is
   a whole frame whose PAPERLENGTH reads as the header's full height *)
C15_ShortRead ==
    short_at >= 0 =>
      LET stride == PbmStride(header.cupsWidth)
          last == IF pc = "done" THEN Len(out) - 2 ELSE Len(out)
      IN /\ nreads = short_at + 1
         /\ short_at < header.cupsHeight
         /\ pc \in {"compress", "encode"} =>
              /\ pbm.alloc
              /\ Len(pbm.mem) = stride * header.cupsHeight
              /\ \A r \in short_at..(header.cupsHeight - 1) :
                   RowOf(pbm.mem, r, stride) = Zeros(stride)
         /\ pc = "compress" =>
              /\ Len(src_lines) = short_at
              /\ \A r \in 0..(short_at - 1) :
                   RowOf(pbm.mem, r, stride) =
                     ConvertRow(header, src_lines[r + 1], Zeros(stride))
         /\ pc \in {"compress", "encode", "emit", "loop", "footer", "done"}
         /\ pc \in {"loop", "footer", "done"} =>
              outcome \in {"emitted", "compress_failed"}
         /\ outcome = "emitted" =>
              /\ last >= Len(FrameKeys)
              /\ SubSeq(OutKeys, last - Len(FrameKeys) + 1, last) = FrameKeys
              /\ ParseUnsigned(out[last - 5].v) = header.cupsHeight

(* C15 witness: the read of the second row of a two-row page came up short: two
   reads, the first row holds its line, the second row is zero *)
C15_Witness ==
    /\ pc = "compress"
    /\ short_at = 1
    /\ nreads = 2
    /\ header.cupsHeight = 2
    /\ src_lines = << << 255 >> >>
    /\ pbm.mem = << 255, 0 >>

----------------------------------------------------------------------------
(* buffer b of the current page is allocated and not yet released *)
Live(b) == heap.allocs[b] - heap.frees[b] = 1

(* C16: each of the page's three buffers (bitmap, line buffer, compressed
   payload) is allocated at most once per page and never released more often
   than allocated; a pointer is in use exactly while its buffer is allocated and
   not released; whenever the loop is about to read a header, and after the
   loop and at main's return, every buffer allocated for the page has been
   released exactly once and none is left; a skipped page allocates nothing, an
   emitted page allocated and released all three *)
C16_NoBufferOutlivesPage ==
    /\ \A b \in Buffers :
         /\ heap.allocs[b] \in {0, 1}
         /\ heap.frees[b] <= heap.allocs[b]
    /\ pbm.alloc <=> Live("pbm")
    /\ line.alloc <=> Live("line")
    /\ (buf.alloc \/ jbig.alloc) <=> Live("jbig")
    /\ ~(buf.alloc /\ jbig.alloc)
    /\ pc \in {"start", "raster_open", "loop", "footer", "done"} =>
         /\ NothingAllocated
         /\ heap.frees = heap.allocs
    /\ outcome = "skipped" => heap = NoHeap
    /\ outcome = "emitted" => \A b \in Buffers : heap.allocs[b] = 1 /\ heap.frees[b] = 1
    /\ outcome = "compress_failed" =>
         /\ heap.allocs = [b \in Buffers |-> IF b = "jbig" THEN 0 ELSE 1]
         /\ heap.frees = heap.allocs
    /\ outcome = "convert_failed" => heap.allocs["jbig"] = 0 /\ heap.frees = heap.allocs

(* C16 witness: the loop is back at reading a header after the second page of a
   job was given up with the bitmap allocated and the line buffer not, and the
   bitmap has been released *)
C16_Witness ==
    /\ pc = "loop"
    /\ hdr_reads = 2
    /\ page_count = 1
    /\ outcome = "convert_failed"
    /\ heap.allocs = [b \in Buffers |-> IF b = "pbm" THEN 1 ELSE 0]
    /\ heap.frees = heap.allocs
    /\ NothingAllocated

----------------------------------------------------------------------------
(* C17: on a page whose depth is neither 1 nor 8, every converted row holds the
   first min(canonical stride, source stride) bytes of its source line and
   zeros after them, and nothing past the source line is read, so the run never
   faults there; raster_to_pbm returns the bitmap; the page is given up only
   where an allocation failed, and otherwise it is compressed and emitted as a
   whole page frame and counted *)
C17_UnsupportedDepth ==
    (hdr_reads > 0 /\ ~EmptyPage(header) /\ header.cupsBitsPerPixel \notin {1, 8}) =>
      LET stride == PbmStride(header.cupsWidth)
          n == IF stride < header.cupsBytesPerLine THEN stride
               ELSE header.cupsBytesPerLine
          last == IF pc = "done" THEN Len(out) - 2 ELSE Len(out)
      IN /\ pc # "crashed"
         /\ Converting =>
              \A r \in 0..(Len(src_lines) - 1) :
                LET row == RowOf(pbm.mem, r, stride)
                    ln == src_lines[r + 1]
                IN /\ Len(ln) = header.cupsBytesPerLine
                   /\ \A i \in 1..stride : row[i] = (IF i <= n THEN ln[i] ELSE 0)
         /\ pc \in {"compress", "encode"} => pbm.alloc
         /\ pc = "compress" /\ short_at = -1 => Len(src_lines) = header.cupsHeight
         /\ outcome = "convert_failed" =>
              heap.allocs["pbm"] = 0 \/ heap.allocs["line"] = 0
         /\ outcome = "compress_failed" => heap.allocs["jbig"] = 0
         /\ pc \in {"loop", "footer", "done"} =>
              outcome \in {"emitted", "convert_failed", "compress_failed"}
         /\ outcome = "emitted" =>
              /\ page_count >= 1
              /\ last >= Len(FrameKeys)
              /\ SubSeq(OutKeys, last - Len(FrameKeys) + 1, last) = FrameKeys
              /\ SubSeq(out, last - 11, last - 3) = PageHeader(header, jbig_size)

(* C17 witness: a 4-bit page, 3 pixels wide with 2-byte lines, had both its
   rows read in full and was emitted and counted as the second page of a job *)
C17_Witness ==
    /\ pc = "loop"
    /\ outcome = "emitted"
    /\ header.cupsBitsPerPixel = 4
    /\ header.cupsBytesPerLine = 2
    /\ short_at = -1
    /\ nreads = 2
    /\ page_count = 2

----------------------------------------------------------------------------
(* size <= capacity, and the buffer holds size bytes *)
BufOk(b) == b.alloc => b.size <= b.capacity /\ NBytes(b.data) = b.size

(* C18: the output buffer starts with capacity 65536 and size 0; at every point
   size <= capacity; a callback never lowers the capacity; a chunk that fits
   leaves the capacity as it is and adds its length to size; a chunk that does
   not fit and is accommodated makes the capacity 2 * capacity if that is at
   least size + len and size + len + 65536 otherwise, and adds its length to
   size; a chunk that is not accommodated (its realloc failed) leaves buffer,
   size and capacity as they were *)
C18_Step ==
    /\ BufOk(buf) /\ BufOk(buf')
    /\ (~buf.alloc /\ buf'.alloc) => buf'.capacity = 65536 /\ buf'.size = 0
    /\ (buf.alloc /\ buf'.alloc /\ cb_calls' # cb_calls) =>
         LET len == cb_calls'[Len(cb_calls')].len
             need == buf.size + len
         IN /\ Len(cb_calls') = Len(cb_calls) + 1
            /\ buf'.capacity >= buf.capacity
            /\ need <= buf.capacity =>
                 /\ buf'.capacity = buf.capacity
                 /\ buf'.size = need
            /\ need > buf.capacity =>
                 \/ /\ buf'.size = need
                    /\ buf'.capacity = (IF 2 * buf.capacity >= need
                                        THEN 2 * buf.capacity
                                        ELSE need + 65536)
                 \/ /\ buf' = buf
                    /\ realloc_failed'
    /\ (buf.alloc /\ buf'.alloc /\ cb_calls' = cb_calls) => buf' = buf

C18_BufferGrowth == [][C18_Step]_vars

(* C18 witness: a chunk of 200000 bytes met the fresh buffer (doubling is not
   enough: capacity 200000 + 65536), then a chunk of 1 byte fitted *)
C18_Witness ==
    /\ pc = "encode"
    /\ Len(cb_calls) = 2
    /\ cb_calls[1].len = 200000
    /\ cb_calls[2].len = 1
    /\ buf.size = 200001
    /\ buf.capacity = 265536

----------------------------------------------------------------------------
(* C19 as claimed: whenever the loop is about to read the next header after a
   page with nonzero height and stride, exactly height pixel-line reads have
   been issued since that page's header was read *)
C19_AsClaimed ==
    (pc = "loop" /\ hdr_reads > 0 /\ ~EmptyPage(header)) =>
      nreads = header.cupsHeight

====
